---- MODULE Spec2Model ----
(***************************************************************************)
(* A model of quickbooks/mixins.py: the JSON codec (ToJsonMixin,           *)
(* FromJsonMixin) and the capability mixins that build payloads and query  *)
(* strings and hand them to the transport client.                          *)
(*                                                                         *)
(* Python values are tagged records, so that 0, "0", "" and None stay      *)
(* different values, as they are for Python's truth test and int():        *)
(*   [t |-> "none"]            None                                        *)
(*   [t |-> "int",  i |-> n]   an int                                      *)
(*   [t |-> "str",  s |-> s]   a str                                       *)
(*   [t |-> "bool", b |-> b]   a bool                                      *)
(*   [t |-> "dec",  s |-> s]   a decimal.Decimal whose str() is s          *)
(*   [t |-> "dict", d |-> kv]  a dict; kv is its items in insertion order  *)
(*   [t |-> "list", l |-> seq] a list                                      *)
(*   [t |-> "obj", cls |-> c, d |-> kv]  an instance of class c; kv is its *)
(*                             __dict__ in insertion order                 *)
(*   [t |-> "exc",  e |-> name] an exception raised instead of a value     *)
(* An item of kv is a record [k |-> name, v |-> value].                    *)
(***************************************************************************)
EXTENDS Integers, Sequences, FiniteSets, TLC

VARIABLES
    op,       \* the operation that ran last ("init" before any)
    arg,      \* the arguments of the operation: drawn in Init for the codec and
              \* query specifications, set by each call in the entity one
    ent,      \* the caller's entity instance (self)
    pre,      \* ent as it was when the last operation was called
    ret,      \* what the last operation returned, or the exception it raised
    calls     \* the calls the last operation made on the transport client

vars == <<op, arg, ent, pre, ret, calls>>

----------------------------------------------------------------------------
(* Python values *)

PyNone == [t |-> "none"]

PyInt(n) == [t |-> "int", i |-> n]

PyStr(s) == [t |-> "str", s |-> s]

PyBool(b) == [t |-> "bool", b |-> b]

PyDec(s) == [t |-> "dec", s |-> s]

PyDict(kv) == [t |-> "dict", d |-> kv]

PyList(seq) == [t |-> "list", l |-> seq]

PyObj(cls, kv) == [t |-> "obj", cls |-> cls, d |-> kv]

Raised(name) == [t |-> "exc", e |-> name]

IsRaised(v) == v.t = "exc"

KV(k, v) == [k |-> k, v |-> v]

\* The truth test Python applies in `if x` / `not x`.
Truthy(v) ==
    CASE v.t = "none" -> FALSE
      [] v.t = "int"  -> v.i # 0
      [] v.t = "str"  -> v.s # ""
      [] v.t = "bool" -> v.b
      [] v.t = "dict" -> Len(v.d) > 0
      [] v.t = "list" -> Len(v.l) > 0
      [] OTHER        -> TRUE

\* The characters of the model's strings, in code point order: Python compares
\* str values character by character by code point.
CodePoints == "0123456789ABCDEFGHIJKLMNOPQRSTUVWXYZ_abcdefghijklmnopqrstuvwxyz"

CharAt(s, i) == SubSeq(s, i, i)

\* ord(c), up to the offset of the first character.
OrdTable == [c \in {CharAt(CodePoints, i) : i \in 1..Len(CodePoints)} |->
                CHOOSE i \in 1..Len(CodePoints) : CharAt(CodePoints, i) = c]

Ord(c) == OrdTable[c]

RECURSIVE StrLess(_, _)
\* a < b for two str values.
StrLess(a, b) ==
    IF Len(b) = 0 THEN FALSE
    ELSE IF Len(a) = 0 THEN TRUE
    ELSE IF CharAt(a, 1) # CharAt(b, 1) THEN Ord(CharAt(a, 1)) < Ord(CharAt(b, 1))
    ELSE StrLess(SubSeq(a, 2, Len(a)), SubSeq(b, 2, Len(b)))

\* k.startswith(p)
StartsWith(k, p) == Len(k) >= Len(p) /\ SubSeq(k, 1, Len(p)) = p

Digits == "0123456789"

DigitOf(c) == (CHOOSE i \in 1..Len(Digits) : CharAt(Digits, i) = c) - 1

IsNumeral(s) ==
    /\ Len(s) > 0
    /\ \A i \in 1..Len(s) : \E j \in 1..Len(Digits) : CharAt(Digits, j) = CharAt(s, i)

RECURSIVE StrOfNat(_)
StrOfNat(n) ==
    IF n < 10 THEN CharAt(Digits, n + 1)
    ELSE StrOfNat(n \div 10) \o CharAt(Digits, (n % 10) + 1)

\* str(n) for an int n.
StrOfInt(n) == IF n < 0 THEN "-" \o StrOfNat(0 - n) ELSE StrOfNat(n)

RECURSIVE NatOfStr(_)
NatOfStr(s) ==
    IF Len(s) = 1 THEN DigitOf(s)
    ELSE 10 * NatOfStr(SubSeq(s, 1, Len(s) - 1)) + DigitOf(CharAt(s, Len(s)))

\* Whether int(v) returns: an int or bool does, a str does when it is a numeral
\* (a leading sign or blanks are outside the model's strings).
IntDefined(v) == v.t \in {"int", "bool"} \/ (v.t = "str" /\ IsNumeral(v.s))

\* int(v) where IntDefined(v).
IntOf(v) ==
    CASE v.t = "int"  -> v.i
      [] v.t = "bool" -> IF v.b THEN 1 ELSE 0
      [] OTHER        -> NatOfStr(v.s)

\* str(v) as str.format and `+ str(..)` render a value.
StrOf(v) ==
    CASE v.t = "int"  -> StrOfInt(v.i)
      [] v.t = "str"  -> v.s
      [] v.t = "dec"  -> v.s
      [] v.t = "bool" -> IF v.b THEN "True" ELSE "False"
      [] OTHER        -> "None"

----------------------------------------------------------------------------
(* Attribute dictionaries: __dict__ and dict, in insertion order *)

Keys(kv) == {kv[i].k : i \in 1..Len(kv)}

HasKey(kv, k) == \E i \in 1..Len(kv) : kv[i].k = k

Get(kv, k) == kv[CHOOSE i \in 1..Len(kv) : kv[i].k = k].v

\* setattr / d[k] = v: an existing key keeps its place, a new key goes last.
Put(kv, k, v) ==
    IF HasKey(kv, k)
    THEN [i \in 1..Len(kv) |-> IF kv[i].k = k THEN KV(k, v) ELSE kv[i]]
    ELSE Append(kv, KV(k, v))

\* self.<k> of an instance.
Attr(obj, k) == Get(obj.d, k)

RECURSIVE Assign(_, _)
\* obj after the assignments obj.<k> = v for the items of kv, in order.
Assign(obj, kv) ==
    IF Len(kv) = 0 THEN obj
    ELSE Assign(PyObj(obj.cls, Put(obj.d, kv[1].k, kv[1].v)), Tail(kv))

\* No instance: before the first call, and where an operation has no self.
NoInstance == PyNone

\* Bounded sets of arguments

\* Seq(S) up to length n.
SeqsUpTo(S, n) == UNION {[1..m -> S] : m \in 0..n}

RECURSIVE Flatten(_)
\* The items of `opts` that are present, in order: an option is <<>> (the key is
\* absent) or <<item>>.
Flatten(opts) == IF Len(opts) = 0 THEN <<>> ELSE opts[1] \o Flatten(Tail(opts))

Opt(k, values) == {<<>>} \cup {<<KV(k, v)>> : v \in values}

----------------------------------------------------------------------------
(* The entity classes the model is run on.  Their definitions live in the   *)
(* quickbooks.objects package: a constructor that sets the instance's        *)
(* attributes, and the class-level tables class_dict, list_dict, detail_dict,*)
(* qbo_object_name and qbo_json_object_name.                                 *)

Classes ==
    {"Department", "Invoice", "Payment", "SalesReceipt", "BillPayment",
     "CreditCardPayment", "Item", "Ref", "DetailLine", "SalesItemLine", "DiscountLine",
     "SalesItemLineDetail", "Bill", "RecurringTransaction"}

\* cls(): the instance a constructor returns.
New(cls) ==
    CASE cls = "Department" ->
            PyObj(cls, <<KV("Id", PyNone), KV("SyncToken", PyInt(0)), KV("Name", PyStr(""))>>)
      [] cls = "Invoice" ->
            PyObj(cls, <<KV("Id", PyNone), KV("SyncToken", PyInt(0)), KV("DocNumber", PyStr("")),
                         KV("CustomerRef", PyNone), KV("Line", PyList(<<>>))>>)
      [] cls \in {"Payment", "SalesReceipt", "BillPayment"} ->
            PyObj(cls, <<KV("Id", PyNone), KV("SyncToken", PyInt(0)), KV("PrivateNote", PyStr(""))>>)
      [] cls = "CreditCardPayment" ->
            PyObj(cls, <<KV("Id", PyNone), KV("SyncToken", PyInt(0)), KV("Memo", PyStr(""))>>)
      [] cls = "Item" ->
            PyObj(cls, <<KV("Id", PyNone), KV("SyncToken", PyInt(0)), KV("Name", PyStr("")),
                         KV("Sku", PyNone)>>)
      [] cls = "Ref" ->
            PyObj(cls, <<KV("value", PyStr("")), KV("name", PyStr(""))>>)
      [] cls = "DetailLine" ->
            PyObj(cls, <<KV("Id", PyNone), KV("Amount", PyInt(0)), KV("DetailType", PyStr(""))>>)
      [] cls = "SalesItemLine" ->
            PyObj(cls, <<KV("Id", PyNone), KV("Amount", PyInt(0)),
                         KV("DetailType", PyStr("SalesItemLineDetail")),
                         KV("SalesItemLineDetail", PyNone)>>)
      [] cls = "DiscountLine" ->
            PyObj(cls, <<KV("Id", PyNone), KV("Amount", PyInt(0)),
                         KV("DetailType", PyStr("DiscountLineDetail"))>>)
      [] cls = "Bill" ->
            PyObj(cls, <<KV("Id", PyNone), KV("SyncToken", PyInt(0)), KV("DocNumber", PyStr(""))>>)
      [] cls = "RecurringTransaction" ->
            PyObj(cls, <<>>)
      [] OTHER ->
            PyObj(cls, <<KV("Qty", PyInt(0)), KV("ItemRef", PyNone)>>)

\* cls.class_dict: field name -> class of the nested object.
ClassDict(cls) ==
    CASE cls = "Invoice"             -> <<KV("CustomerRef", "Ref")>>
      [] cls = "SalesItemLine"       -> <<KV("SalesItemLineDetail", "SalesItemLineDetail")>>
      [] cls = "SalesItemLineDetail" -> <<KV("ItemRef", "Ref")>>
      [] cls = "RecurringTransaction" -> <<KV("Bill", "Bill")>>
      [] OTHER                       -> <<>>

\* cls.list_dict: field name -> default class of the list's elements.
ListDict(cls) ==
    CASE cls = "Invoice" -> <<KV("Line", "DetailLine")>>
      [] OTHER           -> <<>>

\* cls.detail_dict: DetailType value -> class of the element.
DetailDict(cls) ==
    CASE cls = "Invoice" -> <<KV("SalesItemLineDetail", "SalesItemLine"),
                              KV("DiscountLineDetail", "DiscountLine")>>
      [] OTHER           -> <<>>

\* cls.qbo_object_name
qbo_object_name(cls) == cls

\* cls.qbo_json_object_name
qbo_json_object_name(cls) ==
    IF cls = "CreditCardPayment" THEN "CreditCardPaymentTxn" ELSE ""

----------------------------------------------------------------------------
(* JSON documents: what a JSON text denotes.  A document is               *)
(*   [j |-> "null"], [j |-> "num", n |-> _], [j |-> "str", s |-> _],       *)
(*   [j |-> "bool", b |-> _], [j |-> "arr", a |-> seq] or                  *)
(*   [j |-> "obj", m |-> members], members in the order the text has them. *)

JNull == [j |-> "null"]

JNum(n) == [j |-> "num", n |-> n]

JStr(s) == [j |-> "str", s |-> s]

JBool(b) == [j |-> "bool", b |-> b]

JArr(seq) == [j |-> "arr", a |-> seq]

JObj(members) == [j |-> "obj", m |-> members]

\* sort_keys=True: one item put in its place among items already sorted by key.
InsertSorted(item, sorted) ==
    LET n == Cardinality({i \in 1..Len(sorted) : StrLess(sorted[i].k, item.k)})
    IN  SubSeq(sorted, 1, n) \o <<item>> \o SubSeq(sorted, n + 1, Len(sorted))

RECURSIVE SortItems(_)
\* sort_keys=True: the items of a dict ordered by key.
SortItems(kv) ==
    IF Len(kv) = 0 THEN <<>> ELSE InsertSorted(kv[1], SortItems(Tail(kv)))

\* json_filter with the `is not None` test lost.
FilterItemsKeepNone(kv) ==
    SelectSeq(kv, LAMBDA it : ~StartsWith(it.k, "_"))

\* The items json_filter keeps: the name does not start with "_" and the value
\* is not None.
FilterItems(kv) ==
    SelectSeq(kv, LAMBDA it : ~StartsWith(it.k, "_") /\ it.v # PyNone)

\* ToJsonMixin.json_filter's lambda: str(obj) for a Decimal, else the filtered
\* __dict__ as a dict.
json_filter(obj) ==
    IF obj.t = "dec" THEN PyStr(obj.s) ELSE PyDict(FilterItems(obj.d))

RECURSIVE json_dumps(_)
\* json.dumps(v, default=json_filter, sort_keys=True): the document written.
\* The encoder calls default on what it cannot serialise (an instance, a
\* Decimal) and serialises what default returns.
json_dumps(v) ==
    CASE v.t = "none" -> JNull
      [] v.t = "int"  -> JNum(v.i)
      [] v.t = "str"  -> JStr(v.s)
      [] v.t = "bool" -> JBool(v.b)
      [] v.t = "list" -> JArr([i \in 1..Len(v.l) |-> json_dumps(v.l[i])])
      [] v.t = "dict" ->
            LET sorted == SortItems(v.d)
            IN  JObj([i \in 1..Len(sorted) |-> KV(sorted[i].k, json_dumps(sorted[i].v))])
      [] OTHER        -> json_dumps(json_filter(v))

\* ToJsonMixin.to_json
to_json(self) == json_dumps(self)

RECURSIVE json_loads(_)
\* json.loads: the Python value a document is read as.
json_loads(doc) ==
    CASE doc.j = "null" -> PyNone
      [] doc.j = "num"  -> PyInt(doc.n)
      [] doc.j = "str"  -> PyStr(doc.s)
      [] doc.j = "bool" -> PyBool(doc.b)
      [] doc.j = "arr"  -> PyList([i \in 1..Len(doc.a) |-> json_loads(doc.a[i])])
      [] OTHER          -> PyDict([i \in 1..Len(doc.m) |-> KV(doc.m[i].k, json_loads(doc.m[i].v))])

----------------------------------------------------------------------------
(* FromJsonMixin.from_json *)

\* sub in s, for two str values.
Contains(s, sub) ==
    \E i \in 1..(Len(s) + 1) : i + Len(sub) - 1 <= Len(s) /\ SubSeq(s, i, i + Len(sub) - 1) = sub

\* Whether `for x in v` runs: v is iterable.
Iterable(v) == v.t \in {"dict", "list", "str"}

\* What `for x in v` yields: a dict's keys, a list's elements, a str's characters.
IterOf(v) ==
    CASE v.t = "dict" -> [i \in 1..Len(v.d) |-> PyStr(v.d[i].k)]
      [] v.t = "list" -> v.l
      [] OTHER        -> [i \in 1..Len(v.s) |-> PyStr(CharAt(v.s, i))]

\* 'DetailType' in data
HasDetailType(data) ==
    CASE data.t = "dict" -> HasKey(data.d, "DetailType")
      [] data.t = "list" -> \E i \in 1..Len(data.l) : data.l[i] = PyStr("DetailType")
      [] OTHER           -> Contains(data.s, "DetailType")

RECURSIVE from_json(_, _)
RECURSIVE DecodeElement(_, _, _)
RECURSIVE DecodeList(_, _, _, _, _)
RECURSIVE DecodeItems(_, _, _, _)

\* DecodeElement with the DetailType lookup lost: every element gets list_dict's
\* class.
DecodeElementNoDetail(cls, key, data) ==
    IF ~Iterable(data) THEN Raised("TypeError")
    ELSE from_json(Get(ListDict(cls), key), data)

\* Lines 46-51: one element of a list field.  The class is detail_dict's for the
\* element's DetailType when it has one that detail_dict holds, else list_dict's.
DecodeElement(cls, key, data) ==
    IF ~Iterable(data) THEN Raised("TypeError")
    ELSE IF HasDetailType(data)
    THEN IF data.t # "dict" THEN Raised("TypeError")
         ELSE LET dt == Get(data.d, "DetailType")
              IN  IF dt.t \in {"dict", "list"} THEN Raised("TypeError")
                  ELSE IF dt.t = "str" /\ HasKey(DetailDict(cls), dt.s)
                  THEN from_json(Get(DetailDict(cls), dt.s), data)
                  ELSE from_json(Get(ListDict(cls), key), data)
    ELSE from_json(Get(ListDict(cls), key), data)

\* Lines 42-52: the loop over the elements, from element i on; sub_list is the
\* list built so far.
DecodeList(cls, key, elems, i, sub_list) ==
    IF i > Len(elems) THEN PyList(sub_list)
    ELSE LET sub_obj == DecodeElement(cls, key, elems[i])
         IN  IF IsRaised(sub_obj) THEN sub_obj
             ELSE DecodeList(cls, key, elems, i + 1, Append(sub_list, sub_obj))

\* DecodeItems with the class_dict branch lost: a nested object stays the raw
\* value.
DecodeItemsNoClassDict(cls, items, i, obj) ==
    IF i > Len(items) THEN obj
    ELSE DecodeItems(cls, items, i + 1, PyObj(cls, Put(obj.d, items[i].k, items[i].v)))

\* Lines 35-56: the loop over the keys, from item i on; obj is the instance so far.
DecodeItems(cls, items, i, obj) ==
    IF i > Len(items) THEN obj
    ELSE LET key == items[i].k
             val == items[i].v
             sub == IF HasKey(ClassDict(cls), key)
                      THEN from_json(Get(ClassDict(cls), key), val)
                    ELSE IF HasKey(ListDict(cls), key)
                      THEN IF Iterable(val)
                           THEN DecodeList(cls, key, IterOf(val), 1, <<>>)
                           ELSE Raised("TypeError")
                    ELSE val
         IN  IF IsRaised(sub) THEN sub
             ELSE DecodeItems(cls, items, i + 1, PyObj(cls, Put(obj.d, key, sub)))

\* FromJsonMixin.from_json(cls, json_data).  `for key in json_data` raises
\* TypeError on a value that is not iterable and never runs its body over an
\* empty str or list.  Over a non-empty one the first key is a character or an
\* element, in neither map, so line 56 reads json_data[key]: IndexError for an
\* int past the end of a list, TypeError otherwise (a key that is no index, or
\* setattr with a name that is no str).
from_json(cls, json_data) ==
    IF json_data.t = "dict" THEN DecodeItems(cls, json_data.d, 1, New(cls))
    ELSE IF ~Iterable(json_data) THEN Raised("TypeError")
    ELSE IF Len(IterOf(json_data)) = 0 THEN New(cls)
    ELSE LET key == IterOf(json_data)[1]
         IN  IF /\ json_data.t = "list"
                /\ key.t = "int"
                /\ (key.i >= Len(json_data.l) \/ key.i < 0 - Len(json_data.l))
             THEN Raised("IndexError")
             ELSE Raised("TypeError")

----------------------------------------------------------------------------
(* The transport client, as the mixins use it.  A call is the record        *)
(*   [fn |-> method, on |-> "given" | "default", a1 |-> first argument,      *)
(*    body |-> second argument, kw |-> keyword arguments]                    *)
(* where "default" is the client QuickBooks() returns when the caller        *)
(* passed none.                                                              *)

Call(fn, on, a1, body, kw) == [fn |-> fn, on |-> on, a1 |-> a1, body |-> body, kw |-> kw]

\* `if not qb: qb = QuickBooks()`: the client the calls go to.
ClientOf(qb) == IF qb = "none" THEN "default" ELSE "given"

\* qb.api_url and qb.company_id of the client.
api_url == "https://sandbox-quickbooks.api.intuit.com/v3"

company_id == "1234"

UpperCase == "ABCDEFGHIJKLMNOPQRSTUVWXYZ"

LowerCase == "abcdefghijklmnopqrstuvwxyz"

LowerTable == [c \in {CharAt(UpperCase, i) : i \in 1..Len(UpperCase)} |->
                  CharAt(LowerCase, CHOOSE i \in 1..Len(UpperCase) : CharAt(UpperCase, i) = c)]

LowerChar(c) == IF c \in DOMAIN LowerTable THEN LowerTable[c] ELSE c

RECURSIVE Lower(_)
\* s.lower()
Lower(s) == IF Len(s) = 0 THEN "" ELSE LowerChar(CharAt(s, 1)) \o Lower(SubSeq(s, 2, Len(s)))

RECURSIVE json_dumps_plain(_)
\* json.dumps(v, cls=DecimalEncoder) of a dict of plain values: members in
\* insertion order, a Decimal as its str().
json_dumps_plain(v) ==
    CASE v.t = "none" -> JNull
      [] v.t = "int"  -> JNum(v.i)
      [] v.t = "str"  -> JStr(v.s)
      [] v.t = "bool" -> JBool(v.b)
      [] v.t = "dec"  -> JStr(v.s)
      [] v.t = "list" -> JArr([i \in 1..Len(v.l) |-> json_dumps_plain(v.l[i])])
      [] OTHER        -> JObj([i \in 1..Len(v.d) |-> KV(v.d[i].k, json_dumps_plain(v.d[i].v))])

\* What an operation leaves behind: the instance, what it returned or raised,
\* and the transport calls it made.
Outcome(self, result, made) == [self |-> self, ret |-> result, calls |-> made]

----------------------------------------------------------------------------
(* UpdateMixin.save *)

\* Line 198: `self.Id and int(self.Id) > 0`, where int() returns.
IdIsPositive(self) == Truthy(Attr(self, "Id")) /\ IntOf(Attr(self, "Id")) > 0

\* Lines 203-206: the key the response is unwrapped by.
ResponseKey(cls) ==
    IF qbo_json_object_name(cls) # "" THEN qbo_json_object_name(cls) ELSE qbo_object_name(cls)

\* Lines 203-209 without line 208: the Id of the response is not copied.
SaveDecodeKeepId(self, json_data, made) ==
    IF ~HasKey(json_data.d, ResponseKey(self.cls)) THEN Outcome(self, Raised("KeyError"), made)
    ELSE LET obj == from_json(self.cls, Get(json_data.d, ResponseKey(self.cls)))
         IN  IF IsRaised(obj) THEN Outcome(self, obj, made)
             ELSE IF ~HasKey(obj.d, "Id") THEN Outcome(self, Raised("AttributeError"), made)
             ELSE Outcome(self, obj, made)

\* Lines 203-209, once the transport has answered json_data.
SaveDecode(self, json_data, made) ==
    IF ~HasKey(json_data.d, ResponseKey(self.cls)) THEN Outcome(self, Raised("KeyError"), made)
    ELSE LET obj == from_json(self.cls, Get(json_data.d, ResponseKey(self.cls)))
         IN  IF IsRaised(obj) THEN Outcome(self, obj, made)
             ELSE IF ~HasKey(obj.d, "Id") THEN Outcome(self, Raised("AttributeError"), made)
             ELSE Outcome(PyObj(self.cls, Put(self.d, "Id", Attr(obj, "Id"))), obj, made)

\* save with the int() test lost: `if self.Id:`.
save_truthy_id(self, qb, request_id, params, reply) ==
    LET fn   == IF Truthy(Attr(self, "Id")) THEN "update_object" ELSE "create_object"
        made == <<Call(fn, ClientOf(qb), qbo_object_name(self.cls), to_json(self),
                       <<KV("request_id", request_id), KV("params", params)>>)>>
    IN  IF IsRaised(reply) THEN Outcome(self, reply, made) ELSE SaveDecode(self, reply, made)

\* save taking over every attribute of the decoded instance.
save_refresh_all(self, qb, request_id, params, reply) ==
    LET fn   == IF IdIsPositive(self) THEN "update_object" ELSE "create_object"
        made == <<Call(fn, ClientOf(qb), qbo_object_name(self.cls), to_json(self),
                       <<KV("request_id", request_id), KV("params", params)>>)>>
        out  == SaveDecode(self, reply, made)
    IN  IF IsRaised(reply) THEN Outcome(self, reply, made)
        ELSE IF IsRaised(out.ret) THEN out
        ELSE Outcome(Assign(self, out.ret.d), out.ret, made)

\* save copying SyncToken as well as Id onto self.
save_refresh_token(self, qb, request_id, params, reply) ==
    LET fn   == IF IdIsPositive(self) THEN "update_object" ELSE "create_object"
        made == <<Call(fn, ClientOf(qb), qbo_object_name(self.cls), to_json(self),
                       <<KV("request_id", request_id), KV("params", params)>>)>>
        out  == SaveDecode(self, reply, made)
    IN  IF IsRaised(reply) THEN Outcome(self, reply, made)
        ELSE IF IsRaised(out.ret) THEN out
        ELSE Outcome(PyObj(self.cls, Put(out.self.d, "SyncToken", Attr(out.ret, "SyncToken"))),
                     out.ret, made)

\* UpdateMixin.save(self, qb, request_id, params); reply is what the transport
\* call returns (the decoded response) or raises.
save(self, qb, request_id, params, reply) ==
    IF Truthy(Attr(self, "Id")) /\ ~IntDefined(Attr(self, "Id"))
    THEN Outcome(self, Raised("ValueError"), <<>>)
    ELSE LET fn   == IF IdIsPositive(self) THEN "update_object" ELSE "create_object"
             made == <<Call(fn, ClientOf(qb), qbo_object_name(self.cls), to_json(self),
                            <<KV("request_id", request_id), KV("params", params)>>)>>
         IN  IF IsRaised(reply) THEN Outcome(self, reply, made)
             ELSE SaveDecode(self, reply, made)

----------------------------------------------------------------------------
(* DeleteMixin.delete, VoidMixin.void, QuickbooksPdfDownloadable.download_pdf *)

\* delete with the Id test lost.
delete_unguarded(self, qb, request_id, reply) ==
    Outcome(self, reply,
            <<Call("delete_object", ClientOf(qb), qbo_object_name(self.cls),
                   json_dumps_plain(PyDict(<<KV("Id", Attr(self, "Id")),
                                             KV("SyncToken", Attr(self, "SyncToken"))>>)),
                   <<KV("request_id", request_id)>>)>>)

\* delete sending the entity's full encoded body.
delete_full_body(self, qb, request_id, reply) ==
    IF ~Truthy(Attr(self, "Id")) THEN Outcome(self, Raised("QuickbooksException"), <<>>)
    ELSE Outcome(self, reply,
            <<Call("delete_object", ClientOf(qb), qbo_object_name(self.cls), to_json(self),
                   <<KV("request_id", request_id)>>)>>)

\* DeleteMixin.delete(self, qb, request_id)
delete(self, qb, request_id, reply) ==
    IF ~Truthy(Attr(self, "Id")) THEN Outcome(self, Raised("QuickbooksException"), <<>>)
    ELSE Outcome(self, reply,
            <<Call("delete_object", ClientOf(qb), qbo_object_name(self.cls),
                   json_dumps_plain(PyDict(<<KV("Id", Attr(self, "Id")),
                                             KV("SyncToken", Attr(self, "SyncToken"))>>)),
                   <<KV("request_id", request_id)>>)>>)

\* get_void_params without its table: the default for every type.
get_void_params_default(self) == PyDict(<<KV("operation", PyStr("void"))>>)

\* DeleteNoIdMixin.delete(self, qb, request_id)
delete_no_id(self, qb, request_id, reply) ==
    Outcome(self, reply,
            <<Call("delete_object", ClientOf(qb), qbo_object_name(self.cls), to_json(self),
                   <<KV("request_id", request_id)>>)>>)

\* VoidMixin.get_void_params
get_void_params(self) ==
    CASE qbo_object_name(self.cls) \in {"Payment", "SalesReceipt", "BillPayment"} ->
            PyDict(<<KV("operation", PyStr("update")), KV("include", PyStr("void"))>>)
      [] qbo_object_name(self.cls) = "Invoice" ->
            PyDict(<<KV("operation", PyStr("void"))>>)
      [] OTHER ->
            PyDict(<<KV("operation", PyStr("void"))>>)

\* VoidMixin.get_void_data
get_void_data(self) ==
    CASE qbo_object_name(self.cls) \in {"Payment", "SalesReceipt", "BillPayment"} ->
            PyDict(<<KV("Id", Attr(self, "Id")), KV("SyncToken", Attr(self, "SyncToken")),
                     KV("sparse", PyBool(TRUE))>>)
      [] qbo_object_name(self.cls) = "Invoice" ->
            PyDict(<<KV("Id", Attr(self, "Id")), KV("SyncToken", Attr(self, "SyncToken"))>>)
      [] OTHER ->
            PyDict(<<KV("operation", PyStr("void"))>>)

\* VoidMixin.void(self, qb)
void(self, qb, reply) ==
    IF ~Truthy(Attr(self, "Id")) THEN Outcome(self, Raised("QuickbooksException"), <<>>)
    ELSE LET endpoint == Lower(qbo_object_name(self.cls))
             url      == api_url \o "/company/" \o company_id \o "/" \o endpoint
         IN  Outcome(self, reply,
                     <<Call("post", ClientOf(qb), url, json_dumps_plain(get_void_data(self)),
                            <<KV("params", get_void_params(self))>>)>>)

\* QuickbooksPdfDownloadable.download_pdf(self, qb)
download_pdf(self, qb, reply) ==
    IF Truthy(Attr(self, "Id")) /\ ~IntDefined(Attr(self, "Id"))
    THEN Outcome(self, Raised("ValueError"), <<>>)
    ELSE IF IdIsPositive(self) /\ qb # "none"
    THEN Outcome(self, reply,
                 <<Call("download_pdf", "given", qbo_object_name(self.cls), Attr(self, "Id"), <<>>)>>)
    ELSE Outcome(self, Raised("QuickbooksException"), <<>>)

----------------------------------------------------------------------------
(* One entity instance and the calls made on it *)

\* The largest identifier of the run.
MaxId == 1

\* The classes of the instance that carry an Id.
EntityClasses ==
    {"Department", "Invoice", "Payment", "SalesReceipt", "BillPayment", "CreditCardPayment"}

\* The classes of the instance that mix in DeleteNoIdMixin: no Id of their own,
\* the transaction they belong to in a field.
NoIdClasses == {"RecurringTransaction"}

\* What a caller assigns to Id: None, a str or an int.  A str is empty or a
\* numeral, as the server's identifiers are.
IdValues ==
    {PyNone, PyStr(""), PyInt(0 - 1)}
        \cup {PyInt(n) : n \in 0..MaxId} \cup {PyStr(StrOfInt(n)) : n \in 0..MaxId}

SyncTokenValues == {PyInt(0), PyStr("1")}

\* The third attribute a constructor sets stands for the entity's data fields.
DataField(cls) == New(cls).d[3].k

\* The entity body of a server response: Id and SyncToken as numerals, the data
\* field as the server holds it; the Id is missing from a body the server sends
\* for no entity.
ResponseBodies(cls) ==
    {PyDict(Flatten(o)) :
        o \in Opt("Id", {PyStr(StrOfInt(n)) : n \in 1..MaxId})
              \X {<<KV("SyncToken", PyStr("2"))>>}
              \X Opt(DataField(cls), {PyStr("srv")})}

\* What create_object / update_object answer: the body under the response key,
\* a response without that key, or an exception of the transport.
SaveReplies(cls) ==
    {PyDict(<<KV(ResponseKey(cls), b)>>) : b \in ResponseBodies(cls)}
        \cup {PyDict(<<KV("Fault", PyDict(<<>>))>>), Raised("QuickbooksException")}

\* What any other transport call answers.
Replies == {PyDict(<<>>), Raised("QuickbooksException")}

Clients == {"given", "none"}

RequestIds == {PyNone, PyStr("r1")}

Init ==
    /\ op = "init"
    /\ arg = <<>>
    /\ ent \in {New(cls) : cls \in EntityClasses \cup NoIdClasses}
    /\ pre = NoInstance
    /\ ret = PyNone
    /\ calls = <<>>

Done(name, args, out) ==
    /\ op' = name
    /\ arg' = args
    /\ pre' = ent
    /\ ent' = out.self
    /\ ret' = out.ret
    /\ calls' = out.calls

\* The attributes a caller assigns: Id, SyncToken and the data field, or the
\* transaction of an entity without Id.
AttrNames(cls) ==
    IF cls \in NoIdClasses THEN {"Bill"} ELSE {"Id", "SyncToken", DataField(cls)}

\* The transactions assigned to an entity without Id: a new Bill, a saved one.
ChildValues ==
    {PyNone, New("Bill"),
     Assign(New("Bill"), <<KV("Id", PyStr("1")), KV("DocNumber", PyStr("a"))>>)}

\* entity.<k> = v by the caller.
SetAttr ==
    /\ ent # NoInstance
    /\ \E k \in AttrNames(ent.cls) :
          \E v \in (CASE k = "Id" -> IdValues
                      [] k = "SyncToken" -> SyncTokenValues
                      [] k = "Bill" -> ChildValues
                      [] OTHER -> {PyStr(""), PyStr("a")}) :
              Done("setattr", [k |-> k, v |-> v],
                   Outcome(PyObj(ent.cls, Put(ent.d, k, v)), PyNone, <<>>))

\* entity.save(qb=qb, request_id=request_id)
Save ==
    /\ ent # NoInstance /\ ent.cls \in EntityClasses
    /\ \E qb \in Clients, request_id \in RequestIds, reply \in SaveReplies(ent.cls) :
          Done("save", [qb |-> qb, request_id |-> request_id, reply |-> reply],
               save(ent, qb, request_id, PyNone, reply))

\* entity.delete(qb=qb, request_id=request_id)
Delete ==
    /\ ent # NoInstance /\ ent.cls \in EntityClasses
    /\ \E qb \in Clients, request_id \in RequestIds, reply \in Replies :
          Done("delete", [qb |-> qb, request_id |-> request_id, reply |-> reply],
               delete(ent, qb, request_id, reply))

\* entity.void(qb=qb)
Void ==
    /\ ent # NoInstance /\ ent.cls \in EntityClasses
    /\ \E qb \in Clients, reply \in Replies :
          Done("void", [qb |-> qb, reply |-> reply], void(ent, qb, reply))

\* entity.download_pdf(qb=qb)
DownloadPdf ==
    /\ ent # NoInstance /\ ent.cls \in EntityClasses
    /\ \E qb \in Clients, reply \in {PyStr("%PDF"), Raised("QuickbooksException")} :
          Done("download_pdf", [qb |-> qb, reply |-> reply], download_pdf(ent, qb, reply))

\* entity.delete(qb=qb, request_id=request_id) of DeleteNoIdMixin
DeleteNoId ==
    /\ ent # NoInstance /\ ent.cls \in NoIdClasses
    /\ \E qb \in Clients, request_id \in RequestIds, reply \in Replies :
          Done("delete_no_id", [qb |-> qb, request_id |-> request_id, reply |-> reply],
               delete_no_id(ent, qb, request_id, reply))

Next == SetAttr \/ Save \/ Delete \/ Void \/ DownloadPdf \/ DeleteNoId

Spec == Init /\ [][Next]_vars

----------------------------------------------------------------------------
(* Properties of save, delete, void and download_pdf, under Spec *)

\* v is a positive identifier: a positive int, or a numeral of one.
PositiveId(v) ==
    \/ v.t = "int" /\ v.i > 0
    \/ v.t = "str" /\ v.s \in {StrOfInt(n) : n \in 1..MaxId}

\* v is an absent or empty identifier.
NoId(v) == v \in {PyNone, PyStr(""), PyInt(0)}

\* The last operation returned: it raised nothing.
Succeeded == ~IsRaised(ret)

\* The entity body of the response the last save was answered with.
ResponseBody == Get(arg.reply.d, ResponseKey(pre.cls))

\* C1: save issues exactly one transport call, update_object when the entity
\* carries a positive Id and create_object in every other case (None, empty, 0,
\* "0", a negative number); never both and never neither.
C1_SaveOneCall ==
    op = "save" =>
        /\ Len(calls) = 1
        /\ calls[1].fn = (IF PositiveId(Attr(pre, "Id")) THEN "update_object" ELSE "create_object")
        /\ calls[1].a1 = qbo_object_name(pre.cls)
        /\ calls[1].body = to_json(pre)

\* save ran on an entity whose Id is the str "0": true for Python, not positive.
C1_Witness ==
    /\ op = "save"
    /\ Attr(pre, "Id") = PyStr("0")
    /\ Len(calls) = 1
    /\ calls[1].fn = "create_object"

\* C2: after a successful save the original's Id is the decoded response's Id,
\* every other field of the original is as it was before the call, and what is
\* returned is an instance decoded from the response alone.
C2_SaveFrame ==
    (op = "save" /\ Succeeded) =>
        /\ ent.cls = pre.cls
        /\ Keys(ent.d) = Keys(pre.d)
        /\ Attr(ent, "Id") = Attr(ret, "Id")
        /\ \A k \in Keys(pre.d) \ {"Id"} : Attr(ent, k) = Attr(pre, k)
        /\ ret.t = "obj"
        /\ ret.cls = pre.cls
        /\ \A n \in 1..Len(ResponseBody.d) :
              Attr(ret, ResponseBody.d[n].k) = ResponseBody.d[n].v
        /\ \A k \in Keys(ret.d) \ Keys(ResponseBody.d) : Attr(ret, k) = Attr(New(pre.cls), k)

\* A save succeeded on an entity whose data field and SyncToken both differ
\* from the ones the response carries, and whose Id changed.
C2_Witness ==
    /\ op = "save"
    /\ Succeeded
    /\ Attr(pre, DataField(pre.cls)) = PyStr("a")
    /\ HasKey(ResponseBody.d, DataField(pre.cls))
    /\ Attr(ret, DataField(pre.cls)) = PyStr("srv")
    /\ Attr(ent, "Id") # Attr(pre, "Id")
    /\ Attr(ent, "SyncToken") # Attr(ret, "SyncToken")

\* C3 as claimed: after a successful save the original instance carries both
\* the Id and the SyncToken of the decoded response.
C3_IdAndSyncToken ==
    (op = "save" /\ Succeeded) =>
        /\ Attr(ent, "Id") = Attr(ret, "Id")
        /\ Attr(ent, "SyncToken") = Attr(ret, "SyncToken")

\* C3, amended: after a successful save the original instance carries the Id
\* of the decoded response and the SyncToken it had before the call; the
\* response's SyncToken is on the returned instance only.
C3_IdOnly ==
    (op = "save" /\ Succeeded) =>
        /\ Attr(ent, "Id") = Attr(ret, "Id")
        /\ Attr(ent, "SyncToken") = Attr(pre, "SyncToken")
        /\ Attr(ret, "SyncToken") = Get(ResponseBody.d, "SyncToken")

\* An update succeeded and the response's SyncToken is not the entity's.
C3_Witness ==
    /\ op = "save"
    /\ Succeeded
    /\ calls[1].fn = "update_object"
    /\ Attr(ret, "SyncToken") = PyStr("2")
    /\ Attr(ent, "SyncToken") = PyStr("1")

\* C4: delete and void on an entity whose Id is absent or empty, and
\* download_pdf on an entity with no positive Id or with no client passed in,
\* raise QuickbooksException, make no transport call and leave the entity as
\* it was.
C4_Preconditions ==
    (\/ op \in {"delete", "void"} /\ NoId(Attr(pre, "Id"))
     \/ op = "download_pdf" /\ (~PositiveId(Attr(pre, "Id")) \/ arg.qb = "none")) =>
        /\ ret = Raised("QuickbooksException")
        /\ calls = <<>>
        /\ ent = pre

\* delete was called on an entity whose Id is the empty str.
C4_Witness ==
    /\ op = "delete"
    /\ Attr(pre, "Id") = PyStr("")
    /\ ret = Raised("QuickbooksException")
    /\ calls = <<>>

\* void was called on an entity with no Id.
C4_WitnessVoid ==
    /\ op = "void"
    /\ Attr(pre, "Id") = PyNone
    /\ ret = Raised("QuickbooksException")

\* download_pdf was called with no client on an entity with a positive Id.
C4_WitnessPdf ==
    /\ op = "download_pdf"
    /\ PositiveId(Attr(pre, "Id"))
    /\ arg.qb = "none"
    /\ ret = Raised("QuickbooksException")

\* The types get_void_data and get_void_params give a sparse update to.
SparseVoided == {"Payment", "SalesReceipt", "BillPayment"}

\* The members of a JSON object, as <<key, value>> pairs in order.
Members(doc) == [n \in 1..Len(doc.m) |-> <<doc.m[n].k, doc.m[n].v>>]

\* Id and SyncToken of the entity the last operation ran on, as JSON.
IdMember == <<"Id", json_dumps_plain(Attr(pre, "Id"))>>

SyncTokenMember == <<"SyncToken", json_dumps_plain(Attr(pre, "SyncToken"))>>

\* C11: void on an entity with an Id posts exactly one request to
\* <api_url>/company/<company_id>/<lower-cased object name>; for Payment,
\* SalesReceipt and BillPayment the body is {Id, SyncToken, sparse: true} with
\* params operation=update and include=void, for Invoice the body is
\* {Id, SyncToken} with params operation=void, and for every other type the
\* params are operation=void.
C11_VoidRequest ==
    (op = "void" /\ ~NoId(Attr(pre, "Id"))) =>
        /\ Len(calls) = 1
        /\ calls[1].fn = "post"
        /\ calls[1].a1 = api_url \o "/company/" \o company_id \o "/"
                             \o Lower(qbo_object_name(pre.cls))
        /\ ent = pre
        /\ ret = arg.reply
        /\ LET params == Get(calls[1].kw, "params")
               body   == calls[1].body
           IN  CASE qbo_object_name(pre.cls) \in SparseVoided ->
                       /\ Members(body) = <<IdMember, SyncTokenMember, <<"sparse", JBool(TRUE)>>>>
                       /\ params = PyDict(<<KV("operation", PyStr("update")),
                                            KV("include", PyStr("void"))>>)
                 [] qbo_object_name(pre.cls) = "Invoice" ->
                       /\ Members(body) = <<IdMember, SyncTokenMember>>
                       /\ params = PyDict(<<KV("operation", PyStr("void"))>>)
                 [] OTHER ->
                       params = PyDict(<<KV("operation", PyStr("void"))>>)

\* A SalesReceipt with Id 1 was voided through the default client.
C11_Witness ==
    /\ op = "void"
    /\ pre.cls = "SalesReceipt"
    /\ Attr(pre, "Id") = PyInt(1)
    /\ arg.qb = "none"
    /\ Len(calls) = 1
    /\ calls[1].on = "default"
    /\ Get(calls[1].kw, "params") =
          PyDict(<<KV("operation", PyStr("update")), KV("include", PyStr("void"))>>)

\* C12: delete of DeleteMixin on an entity with a non-empty Id sends a payload
\* of exactly the entity's Id and SyncToken, whatever else the entity holds;
\* delete of DeleteNoIdMixin needs no Id and sends the entity's to_json output;
\* each makes exactly one delete_object call.
C12_DeletePayload ==
    /\ (op = "delete" /\ ~NoId(Attr(pre, "Id"))) =>
          /\ Len(calls) = 1
          /\ calls[1].fn = "delete_object"
          /\ calls[1].a1 = qbo_object_name(pre.cls)
          /\ Members(calls[1].body) = <<IdMember, SyncTokenMember>>
          /\ ret = arg.reply
    /\ op = "delete_no_id" =>
          /\ Len(calls) = 1
          /\ calls[1].fn = "delete_object"
          /\ calls[1].a1 = qbo_object_name(pre.cls)
          /\ calls[1].body = to_json(pre)
          /\ ret = arg.reply

\* An entity with Id "1", SyncToken "1" and a data field was deleted.
C12_Witness ==
    /\ op = "delete"
    /\ Attr(pre, "Id") = PyStr("1")
    /\ Attr(pre, "SyncToken") = PyStr("1")
    /\ Attr(pre, DataField(pre.cls)) = PyStr("a")
    /\ Len(calls) = 1

\* An entity without Id that holds a saved Bill was deleted.
C12_WitnessNoId ==
    /\ op = "delete_no_id"
    /\ ~HasKey(pre.d, "Id")
    /\ HasKey(pre.d, "Bill")
    /\ Attr(pre, "Bill").t = "obj"
    /\ Len(calls) = 1
    /\ calls[1].body = JObj(<<KV("Bill", to_json(Attr(pre, "Bill")))>>)

\* C17: for every entity type, the four of the table and every other one, the
\* body void posts holds the Id and the SyncToken of the entity being voided.
C17_VoidBodyHasIdAndSyncToken ==
    (op = "void" /\ Len(calls) = 1) =>
        /\ calls[1].body.j = "obj"
        /\ \E n \in 1..Len(calls[1].body.m) : Members(calls[1].body)[n] = IdMember
        /\ \E n \in 1..Len(calls[1].body.m) : Members(calls[1].body)[n] = SyncTokenMember

----------------------------------------------------------------------------
(* One instance saved again and again.  Here calls holds every transport    *)
(* call made for the instance so far and arg what the transport answered    *)
(* to each; the caller assigns the data field in between, never Id.         *)

\* The most saves of one instance.
MaxSaves == 3

\* One class without and one with a json object name.
SaveClasses == {"Department", "CreditCardPayment"}

InitSaves ==
    /\ op = "init"
    /\ arg = <<>>
    /\ ent \in {New(cls) : cls \in SaveClasses}
    /\ pre = NoInstance
    /\ ret = PyNone
    /\ calls = <<>>

\* entity.save(qb=qb), once more
SaveAgain ==
    /\ Len(calls) < MaxSaves
    /\ \E reply \in SaveReplies(ent.cls) :
          LET out == save(ent, "given", PyNone, PyNone, reply)
          IN  /\ op' = "save"
              /\ arg' = Append(arg, reply)
              /\ pre' = ent
              /\ ent' = out.self
              /\ ret' = out.ret
              /\ calls' = calls \o out.calls

\* entity.<data field> = "a" by the caller
SetData ==
    /\ Attr(ent, DataField(ent.cls)) # PyStr("a")
    /\ op' = "setattr"
    /\ pre' = ent
    /\ ent' = PyObj(ent.cls, Put(ent.d, DataField(ent.cls), PyStr("a")))
    /\ ret' = PyNone
    /\ UNCHANGED <<arg, calls>>

NextSaves == SaveAgain \/ SetData

SpecSaves == InitSaves /\ [][NextSaves]_vars

\* The transport answered a save with an entity body.
Answered(reply) == ~IsRaised(reply) /\ HasKey(reply.d, ResponseKey(ent.cls))

\* The answer to a save carried a positive Id.
WithId(reply) ==
    /\ Answered(reply)
    /\ HasKey(Get(reply.d, ResponseKey(ent.cls)).d, "Id")
    /\ PositiveId(Get(Get(reply.d, ResponseKey(ent.cls)).d, "Id"))

\* The answer to a save was an entity body without Id.
WithoutId(reply) == Answered(reply) /\ ~WithId(reply)

\* C16 as claimed: for an instance that starts with no Id and whose Id the
\* caller does not reassign, once a save has succeeded with a response
\* carrying a positive Id every later save issues update_object, and across
\* the whole sequence of saves at most one create_object is issued.
C16_AtMostOneCreate ==
    /\ \A m, n \in 1..Len(calls) :
          (m < n /\ WithId(arg[m])) => calls[n].fn = "update_object"
    /\ Cardinality({n \in 1..Len(calls) : calls[n].fn = "create_object"}) <= 1

\* C16, amended: each save makes one call; it is update_object exactly when an
\* earlier save was answered with a positive Id and no save since was answered
\* with a body without Id, and create_object otherwise: a create that fails,
\* or is answered without Id, is followed by another create.
C16_UpdateAfterSaved ==
    /\ Len(calls) = Len(arg)
    /\ \A n \in 1..Len(calls) :
          /\ calls[n].fn \in {"create_object", "update_object"}
          /\ calls[n].fn = "update_object" <=>
                \E m \in 1..(n - 1) :
                    /\ WithId(arg[m])
                    /\ \A j \in (m + 1)..(n - 1) : ~WithoutId(arg[j])

\* Three saves: the first raised, the second was answered with a positive Id,
\* the third updated.
C16_Witness ==
    /\ Len(calls) = 3
    /\ IsRaised(arg[1])
    /\ WithId(arg[2])
    /\ calls[1].fn = "create_object"
    /\ calls[2].fn = "create_object"
    /\ calls[3].fn = "update_object"

----------------------------------------------------------------------------
(* ListMixin: all, filter, choose, where, query *)

RECURSIVE Escape(_)
\* value.replace("'", "\\'")
Escape(s) ==
    IF Len(s) = 0 THEN ""
    ELSE (IF CharAt(s, 1) = "'" THEN "\\'" ELSE CharAt(s, 1)) \o Escape(SubSeq(s, 2, Len(s)))

\* One condition or choice as the builders of quickbooks.utils render it: a str
\* quoted and escaped, anything else by str().
Literal(v) == IF v.t = "str" THEN "'" \o Escape(v.s) \o "'" ELSE StrOf(v)

RECURSIVE Join(_, _)
\* sep.join(parts)
Join(sep, parts) ==
    IF Len(parts) = 0 THEN ""
    ELSE IF Len(parts) = 1 THEN parts[1]
    ELSE parts[1] \o sep \o Join(sep, Tail(parts))

\* utils.build_where_clause(**kwargs): "<field> = <value>" joined by " AND ",
\* in the order of the keyword arguments.
build_where_clause(kwargs) ==
    Join(" AND ", [i \in 1..Len(kwargs) |-> kwargs[i].k \o " = " \o Literal(kwargs[i].v)])

\* utils.build_choose_clause(choices, field): "<field> in (<values>)", or ""
\* for no choices.
build_choose_clause(choices, field) ==
    IF Len(choices) = 0 THEN ""
    ELSE field \o " in (" \o Join(", ", [i \in 1..Len(choices) |-> Literal(choices[i])]) \o ")"

RECURSIVE DecodeRows(_, _, _, _)
\* Lines 350-351: the loop over the rows, from row i on.
DecodeRows(cls, rows, i, obj_list) ==
    IF i > Len(rows) THEN PyList(obj_list)
    ELSE LET obj == from_json(cls, rows[i])
         IN  IF IsRaised(obj) THEN obj
             ELSE DecodeRows(cls, rows, i + 1, Append(obj_list, obj))

\* query unwrapping by qbo_object_name whatever qbo_json_object_name is.
query_by_object_name(cls, select, qb, reply) ==
    LET made        == <<Call("query", ClientOf(qb), select, PyNone, <<>>)>>
        object_name == qbo_object_name(cls)
    IN  IF IsRaised(reply) THEN Outcome(NoInstance, reply, made)
        ELSE LET response == Get(reply.d, "QueryResponse")
             IN  IF HasKey(response.d, object_name)
                 THEN Outcome(NoInstance,
                              DecodeRows(cls, IterOf(Get(response.d, object_name)), 1, <<>>),
                              made)
                 ELSE Outcome(NoInstance, PyList(<<>>), made)

\* ListMixin.query(cls, select, qb); reply is what qb.query returns or raises.
query(cls, select, qb, reply) ==
    LET made        == <<Call("query", ClientOf(qb), select, PyNone, <<>>)>>
        object_name == ResponseKey(cls)
    IN  IF IsRaised(reply) THEN Outcome(NoInstance, reply, made)
        ELSE LET response == Get(reply.d, "QueryResponse")
             IN  IF HasKey(response.d, object_name)
                 THEN Outcome(NoInstance,
                              DecodeRows(cls, IterOf(Get(response.d, object_name)), 1, <<>>),
                              made)
                 ELSE Outcome(NoInstance, PyList(<<>>), made)

\* ListMixin.where(cls, where_clause, order_by, start_position, max_results, qb).
\* An argument that fails its test goes into the format as it is.
where(cls, where_clause, order_by, start_position, max_results, qb, reply) ==
    LET wc == IF Truthy(where_clause) THEN PyStr("WHERE " \o where_clause.s) ELSE where_clause
        ob == IF Truthy(order_by) THEN PyStr(" ORDERBY " \o order_by.s) ELSE order_by
        sp == IF start_position # PyStr("")
              THEN PyStr(" STARTPOSITION " \o StrOf(start_position))
              ELSE start_position
        mr == IF Truthy(max_results)
              THEN PyStr(" MAXRESULTS " \o StrOf(max_results))
              ELSE max_results
        select == "SELECT * FROM " \o qbo_object_name(cls) \o " "
                      \o StrOf(wc) \o StrOf(ob) \o StrOf(sp) \o StrOf(mr)
    IN  query(cls, select, qb, reply)

\* ListMixin.filter(cls, order_by, start_position, max_results, qb, **kwargs)
filter(cls, order_by, start_position, max_results, qb, kwargs, reply) ==
    where(cls, PyStr(build_where_clause(kwargs)), order_by, start_position, max_results,
          qb, reply)

\* ListMixin.choose(cls, choices, field, qb)
choose(cls, choices, field, qb, reply) ==
    where(cls, PyStr(build_choose_clause(choices, field)), PyStr(""), PyStr(""), PyStr(""),
          qb, reply)

\* ListMixin.all(cls, order_by, start_position, max_results, qb)
all(cls, order_by, start_position, max_results, qb, reply) ==
    LET s0 == IF qbo_object_name(cls) = "Item"
              THEN "SELECT *, Sku FROM " \o qbo_object_name(cls)
              ELSE "SELECT * FROM " \o qbo_object_name(cls)
        s1 == IF Truthy(order_by) THEN s0 \o " ORDER BY " \o StrOf(order_by) ELSE s0
        s2 == IF Truthy(start_position)
              THEN s1 \o " STARTPOSITION " \o StrOf(start_position)
              ELSE s1
        s3 == IF Truthy(max_results) THEN s2 \o " MAXRESULTS " \o StrOf(max_results) ELSE s2
    IN  query(cls, s3, qb, reply)

\* max_results=100, the default of all().
DefaultMaxResults == 100

----------------------------------------------------------------------------
(* The list operations on their own: Init draws a call, a step makes it *)

\* The most rows a query response holds.
MaxRows == 2

QueryClasses == {"Department", "Item", "CreditCardPayment"}

WhereClauses == {PyStr(""), PyStr("Active=True")}

OrderBys == {PyStr(""), PyStr("Name")}

StartPositions == {PyStr(""), PyInt(0), PyInt(1), PyStr("1")}

MaxResults == {PyStr(""), PyInt(0), PyInt(10)}

Filters ==
    {<<>>, <<KV("Active", PyBool(TRUE))>>,
     <<KV("Active", PyBool(TRUE)), KV("Name", PyStr("a"))>>}

Choices == {<<>>, <<PyStr("name1"), PyStr("name2")>>, <<PyInt(1)>>}

Rows == {PyDict(<<KV("Id", PyStr("1")), KV("Name", PyStr("a"))>>),
         PyDict(<<KV("Id", PyStr("2"))>>)}

\* What qb.query answers for cls: rows under the response key, no such key, or
\* an exception of the transport.
QueryReplies(cls) ==
    {PyDict(<<KV("QueryResponse", PyDict(<<KV(ResponseKey(cls), PyList(rows))>>))>>) :
        rows \in SeqsUpTo(Rows, MaxRows)}
    \cup {PyDict(<<KV("QueryResponse", PyDict(<<>>))>>), Raised("QuickbooksException")}

QueryCalls ==
    UNION {
        [fn : {"where"}, cls : {cls}, where_clause : WhereClauses, order_by : OrderBys,
         start_position : StartPositions, max_results : MaxResults,
         qb : Clients, reply : QueryReplies(cls)]
        \cup
        [fn : {"filter"}, cls : {cls}, kwargs : Filters, order_by : OrderBys,
         start_position : StartPositions, max_results : MaxResults,
         qb : Clients, reply : QueryReplies(cls)]
        \cup
        [fn : {"all"}, cls : {cls}, order_by : OrderBys, start_position : StartPositions,
         max_results : MaxResults \cup {PyInt(DefaultMaxResults)},
         qb : Clients, reply : QueryReplies(cls)]
        \cup
        [fn : {"choose"}, cls : {cls}, choices : Choices, field : {"Id", "Name"},
         qb : Clients, reply : QueryReplies(cls)]
        \cup
        [fn : {"query"}, cls : {cls}, select : {"SELECT * FROM " \o cls \o " WHERE Active=True"},
         qb : Clients, reply : QueryReplies(cls)]
        : cls \in QueryClasses}

InitQuery ==
    /\ op = "init"
    /\ arg \in QueryCalls
    /\ ent = NoInstance
    /\ pre = NoInstance
    /\ ret = PyNone
    /\ calls = <<>>

Called(fn, out) ==
    /\ op' = fn
    /\ ret' = out.ret
    /\ calls' = out.calls
    /\ UNCHANGED <<arg, ent, pre>>

\* cls.where(..)
Where ==
    /\ op = "init"
    /\ arg.fn = "where"
    /\ Called("where", where(arg.cls, arg.where_clause, arg.order_by, arg.start_position,
                             arg.max_results, arg.qb, arg.reply))

\* cls.filter(..)
Filter ==
    /\ op = "init"
    /\ arg.fn = "filter"
    /\ Called("filter", filter(arg.cls, arg.order_by, arg.start_position, arg.max_results,
                               arg.qb, arg.kwargs, arg.reply))

\* cls.all(..)
All ==
    /\ op = "init"
    /\ arg.fn = "all"
    /\ Called("all", all(arg.cls, arg.order_by, arg.start_position, arg.max_results,
                         arg.qb, arg.reply))

\* cls.choose(..)
Choose ==
    /\ op = "init"
    /\ arg.fn = "choose"
    /\ Called("choose", choose(arg.cls, arg.choices, arg.field, arg.qb, arg.reply))

\* cls.query(..), and the same call made again: the transport answers anew,
\* pre keeps what the call before returned.
Query ==
    /\ arg.fn = "query"
    /\ \/ /\ op = "init"
          /\ Called("query", query(arg.cls, arg.select, arg.qb, arg.reply))
       \/ /\ op = "query"
          /\ \E reply \in QueryReplies(arg.cls) :
                LET out == query(arg.cls, arg.select, arg.qb, reply)
                IN  /\ op' = "query"
                    /\ arg' = [arg EXCEPT !.reply = reply]
                    /\ pre' = ret
                    /\ ret' = out.ret
                    /\ calls' = out.calls
                    /\ UNCHANGED ent

NextQuery == Where \/ Filter \/ All \/ Choose \/ Query

SpecQuery == InitQuery /\ [][NextQuery]_vars

----------------------------------------------------------------------------
(* Properties of the list operations, under SpecQuery *)

\* " <keyword> <value>" when the argument is given, nothing otherwise.
Clause(keyword, given, v) == IF given THEN " " \o keyword \o " " \o StrOf(v) ELSE ""

\* The where clause of the last call: where's argument, or filter's built one.
WhereArg == IF op = "filter" THEN PyStr(build_where_clause(arg.kwargs)) ELSE arg.where_clause

\* C5: the SELECT where and filter hand to query is `SELECT * FROM <name>`
\* followed by the WHERE, ORDERBY, STARTPOSITION and MAXRESULTS clauses in that
\* order, each present exactly when its argument is non-empty, prefixed by its
\* keyword and separated by a single space; start_position=0 is present.
\* (Stated for a max_results that is empty or not 0.)
C5_WhereSelect ==
    (op \in {"where", "filter"} /\ arg.max_results # PyInt(0)) =>
        /\ Len(calls) = 1
        /\ calls[1].fn = "query"
        /\ calls[1].a1 =
              "SELECT * FROM " \o qbo_object_name(arg.cls)
                  \o Clause("WHERE", WhereArg # PyStr(""), WhereArg)
                  \o Clause("ORDERBY", arg.order_by # PyStr(""), arg.order_by)
                  \o Clause("STARTPOSITION", arg.start_position # PyStr(""), arg.start_position)
                  \o Clause("MAXRESULTS", Truthy(arg.max_results), arg.max_results)

\* C6: all() with no arguments sends `SELECT * FROM <name> MAXRESULTS 100`,
\* and with arguments appends the ORDERBY, STARTPOSITION and MAXRESULTS clauses
\* in that order, each exactly when its argument is given, a start_position of
\* 0 included, with the keywords where() uses.  (Stated for the classes whose
\* select list is `*`.)
C6_AllSelect ==
    (op = "all" /\ arg.cls # "Item") =>
        /\ Len(calls) = 1
        /\ calls[1].fn = "query"
        /\ calls[1].a1 =
              "SELECT * FROM " \o qbo_object_name(arg.cls)
                  \o Clause("ORDERBY", arg.order_by # PyStr(""), arg.order_by)
                  \o Clause("STARTPOSITION", arg.start_position # PyStr(""), arg.start_position)
                  \o Clause("MAXRESULTS", Truthy(arg.max_results), arg.max_results)

\* The list operations: each ends in one call of query.
ListOps == {"all", "where", "filter", "choose"}

\* C14: whenever all, where, filter or choose builds a SELECT for the entity
\* type named Item the string begins `SELECT *, Sku FROM Item`; for every other
\* type the select list is `*`.
C14_ItemSelectList ==
    op \in ListOps =>
        /\ Len(calls) = 1
        /\ StartsWith(calls[1].a1,
                      IF qbo_object_name(arg.cls) = "Item"
                      THEN "SELECT *, Sku FROM Item"
                      ELSE "SELECT * FROM " \o qbo_object_name(arg.cls))

\* C15: every call of query(select) makes exactly one transport query, with
\* the select string unchanged and whatever an earlier call returned, and
\* returns the from_json decodings of the elements of
\* QueryResponse[<json object name if set, else object name>], as many and in
\* the same order; an empty list when QueryResponse has no such key.
C15_QueryFresh ==
    op \in ListOps \cup {"query"} =>
        /\ Len(calls) = 1
        /\ calls[1].fn = "query"
        /\ op = "query" => calls[1].a1 = arg.select
        /\ ~IsRaised(arg.reply) =>
              LET response == Get(arg.reply.d, "QueryResponse")
                  key      == IF qbo_json_object_name(arg.cls) # ""
                              THEN qbo_json_object_name(arg.cls)
                              ELSE qbo_object_name(arg.cls)
              IN  IF HasKey(response.d, key)
                  THEN /\ ret.t = "list"
                       /\ Len(ret.l) = Len(Get(response.d, key).l)
                       /\ \A n \in 1..Len(ret.l) :
                             ret.l[n] = from_json(arg.cls, Get(response.d, key).l[n])
                  ELSE ret = PyList(<<>>)

\* query was called a second time on a class with a json object name: the
\* first call had returned an empty list, this one returns two instances.
C15_Witness ==
    /\ op = "query"
    /\ pre = PyList(<<>>)
    /\ qbo_json_object_name(arg.cls) # ""
    /\ Len(calls) = 1
    /\ ret.t = "list"
    /\ Len(ret.l) = 2
    /\ ret.l[1] # ret.l[2]

----------------------------------------------------------------------------
(* The codec on its own: Init draws one argument, a step applies from_json, *)
(* to_json or both to it.                                                   *)

\* The longest list field of a drawn argument.
MaxLines == 2

\* Values of a shape the maps do not expect under a key.
OddShapes == {PyNone, PyInt(1), PyStr("a"), PyStr(""), PyList(<<>>), PyList(<<PyInt(1)>>)}

RefData ==
    {PyDict(<<>>), PyDict(<<KV("value", PyStr("1")), KV("name", PyStr("a"))>>)}

\* Elements of a Line list as the server sends them.
LineData ==
    {PyDict(<<KV("Amount", PyInt(1))>>),
     PyDict(<<KV("DetailType", PyStr("SalesItemLineDetail")),
              KV("SalesItemLineDetail", PyDict(<<KV("Qty", PyInt(2))>>))>>),
     PyDict(<<KV("Id", PyStr("1")), KV("DetailType", PyStr("DiscountLineDetail"))>>),
     PyDict(<<KV("DetailType", PyStr("DescriptionOnly")), KV("Amount", PyInt(2))>>),
     PyDict(<<KV("DetailType", PyNone)>>)}

\* Elements that are no JSON object.
OddElements == {PyNone, PyStr("a"), PyList(<<>>)}

LineLists ==
    {PyList(l) : l \in SeqsUpTo(LineData, MaxLines)}
        \cup {PyList(<<e>>) : e \in OddElements}
        \cup {PyList(<<d, e>>) : d \in LineData, e \in OddElements}

\* The decoded JSON objects from_json is given.
JsonData ==
    {PyDict(Flatten(o)) :
        o \in Opt("DocNumber", {PyStr("123")})
              \X Opt("CustomerRef", RefData \cup OddShapes)
              \X Opt("Line", LineLists \cup OddShapes \cup {PyDict(<<>>)})
              \X Opt("MetaData", {PyNone, PyInt(1), PyDict(<<KV("CreateTime", PyStr("a"))>>),
                                  PyList(<<PyStr("a")>>)})}

\* The classes from_json is called on.
DecodeClasses == {"Invoice", "Department"}

\* Instances to encode: a fresh instance with some attributes assigned.
RefObjects ==
    {New("Ref"),
     PyObj("Ref", <<KV("value", PyStr("1")), KV("name", PyStr("a"))>>),
     PyObj("Ref", <<KV("value", PyStr("1")), KV("name", PyNone)>>),
     PyObj("Ref", <<KV("value", PyStr("1")), KV("name", PyStr("a")), KV("_hidden", PyInt(1))>>)}

LineObjects ==
    {New("DetailLine"),
     PyObj("SalesItemLine", Put(New("SalesItemLine").d, "SalesItemLineDetail",
                                New("SalesItemLineDetail")))}

Entities ==
    {Assign(New("Invoice"), Flatten(o)) :
        o \in Opt("Id", {PyInt(1), PyStr("1")})
              \X Opt("DocNumber", {PyNone, PyStr("123")})
              \X Opt("CustomerRef", RefObjects)
              \X Opt("Line", {PyList(l) : l \in SeqsUpTo(LineObjects, MaxLines)})}
    \cup
    {Assign(New("Department"), Flatten(o)) :
        o \in Opt("Name", {PyNone, PyStr("a")})
              \X Opt("_cache", {PyInt(1)})
              \X Opt("Budget", {PyDec("25.54"), PyInt(1), PyNone, PyBool(TRUE)})
              \X Opt("ParentRef", RefObjects)}
    \cup
    {Assign(New("SalesItemLineDetail"), Flatten(o)) :
        o \in Opt("Qty", {PyInt(2)})
              \X Opt("ItemRef", RefObjects)
              \X Opt("ClassRef", RefObjects)
              \X Opt("Sku", {PyStr("a")})}

InitCodec ==
    /\ op = "init"
    /\ arg \in [kind : {"json"}, cls : DecodeClasses, data : JsonData]
                 \cup [kind : {"entity"}, cls : {""}, data : Entities]
    /\ ent = NoInstance
    /\ pre = NoInstance
    /\ ret = PyNone
    /\ calls = <<>>

\* cls.from_json(json_data)
FromJson ==
    /\ op = "init"
    /\ arg.kind = "json"
    /\ op' = "from_json"
    /\ ret' = from_json(arg.cls, arg.data)
    /\ UNCHANGED <<arg, ent, pre, calls>>

\* e.to_json()
ToJson ==
    /\ op = "init"
    /\ arg.kind = "entity"
    /\ op' = "to_json"
    /\ ret' = to_json(arg.data)
    /\ UNCHANGED <<arg, ent, pre, calls>>

\* type(e).from_json(json.loads(e.to_json()))
RoundTrip ==
    /\ op = "init"
    /\ arg.kind = "entity"
    /\ op' = "round_trip"
    /\ ret' = from_json(arg.data.cls, json_loads(to_json(arg.data)))
    /\ UNCHANGED <<arg, ent, pre, calls>>

NextCodec == FromJson \/ ToJson \/ RoundTrip

SpecCodec == InitCodec /\ [][NextCodec]_vars

----------------------------------------------------------------------------
(* Properties of the codec, under SpecCodec *)

\* The class lines 46-49 give an element of cls's list field `key`.
ElementClass(cls, key, data) ==
    IF /\ HasKey(data.d, "DetailType")
       /\ Get(data.d, "DetailType").t = "str"
       /\ HasKey(DetailDict(cls), Get(data.d, "DetailType").s)
    THEN Get(DetailDict(cls), Get(data.d, "DetailType").s)
    ELSE Get(ListDict(cls), key)

RECURSIVE WellShaped(_, _)
\* data is a JSON object that holds an object under each class_dict key of cls
\* and a list of objects under each list_dict key, each of them well shaped for
\* the class it is decoded as.
WellShaped(cls, data) ==
    /\ data.t = "dict"
    /\ \A n \in 1..Len(data.d) :
          LET k == data.d[n].k
              v == data.d[n].v
          IN  /\ HasKey(ClassDict(cls), k) => WellShaped(Get(ClassDict(cls), k), v)
              /\ HasKey(ListDict(cls), k) =>
                    /\ v.t = "list"
                    /\ \A i \in 1..Len(v.l) :
                          /\ v.l[i].t = "dict"
                          /\ WellShaped(ElementClass(cls, k, v.l[i]), v.l[i])

\* An element decoded as class c from the JSON object data: an instance of c
\* with an attribute for every key, an instance of the nested class under a
\* class_dict key and the raw value under any other.
DecodedAs(c, data, obj) ==
    /\ obj.t = "obj"
    /\ obj.cls = c
    /\ \A n \in 1..Len(data.d) :
          LET k == data.d[n].k
          IN  /\ HasKey(obj.d, k)
              /\ IF HasKey(ClassDict(c), k)
                 THEN Attr(obj, k).t = "obj" /\ Attr(obj, k).cls = Get(ClassDict(c), k)
                 ELSE Attr(obj, k) = data.d[n].v

\* C7: from_json on a class whose list_dict names a key decodes the list under
\* that key into a list of the same length and order, each element an instance
\* of detail_dict's class for its DetailType when detail_dict has it and of
\* list_dict's class otherwise (no DetailType, or an unknown one), decoded in
\* turn, and does not fail.
C7_ListDecoding ==
    (op = "from_json" /\ WellShaped(arg.cls, arg.data)) =>
        /\ ~IsRaised(ret)
        /\ \A n \in 1..Len(arg.data.d) :
              LET k == arg.data.d[n].k
                  v == arg.data.d[n].v
              IN  HasKey(ListDict(arg.cls), k) =>
                    /\ Attr(ret, k).t = "list"
                    /\ Len(Attr(ret, k).l) = Len(v.l)
                    /\ \A i \in 1..Len(v.l) :
                          DecodedAs(ElementClass(arg.cls, k, v.l[i]), v.l[i], Attr(ret, k).l[i])

\* A list of two elements was decoded: the first with a DetailType detail_dict
\* holds, the second with one it does not hold.
C7_Witness ==
    /\ op = "from_json"
    /\ arg.cls = "Invoice"
    /\ WellShaped(arg.cls, arg.data)
    /\ HasKey(arg.data.d, "Line")
    /\ Len(Get(arg.data.d, "Line").l) = 2
    /\ ~IsRaised(ret)
    /\ Attr(ret, "Line").l[1].cls = "SalesItemLine"
    /\ Attr(ret, "Line").l[1].d # New("SalesItemLine").d
    /\ HasKey(Get(arg.data.d, "Line").l[2].d, "DetailType")
    /\ Get(Get(arg.data.d, "Line").l[2].d, "DetailType") = PyStr("DescriptionOnly")
    /\ Attr(ret, "Line").l[2].cls = "DetailLine"

\* C8: from_json never fails on a JSON object, whatever its keys and the shapes
\* of its values: the decoded instance has an attribute for every key, and the
\* raw value under every key that neither class_dict nor list_dict names.
C8_NeverFails ==
    op = "from_json" =>
        /\ ~IsRaised(ret)
        /\ \A n \in 1..Len(arg.data.d) :
              LET k == arg.data.d[n].k
              IN  /\ HasKey(ret.d, k)
                  /\ (~HasKey(ClassDict(arg.cls), k) /\ ~HasKey(ListDict(arg.cls), k))
                        => Attr(ret, k) = arg.data.d[n].v

\* The JSON value of a value that is neither an instance nor a list.
PlainDocument(v, doc) ==
    CASE v.t = "int"  -> doc = JNum(v.i)
      [] v.t = "str"  -> doc = JStr(v.s)
      [] v.t = "bool" -> doc = JBool(v.b)
      [] v.t = "dec"  -> doc = JStr(v.s)
      [] OTHER        -> FALSE

RECURSIVE EncodesEntity(_, _)
\* doc is a JSON object whose keys are exactly the attributes of obj that are
\* public and not None, in ascending order, and so for every nested instance,
\* also inside a list.
EncodesEntity(obj, doc) ==
    /\ doc.j = "obj"
    /\ \A n \in 1..Len(doc.m) :
          /\ ~StartsWith(doc.m[n].k, "_")
          /\ HasKey(obj.d, doc.m[n].k)
          /\ Attr(obj, doc.m[n].k) # PyNone
    /\ \A n \in 1..Len(obj.d) :
          (~StartsWith(obj.d[n].k, "_") /\ obj.d[n].v # PyNone) =>
              \E m \in 1..Len(doc.m) : doc.m[m].k = obj.d[n].k
    /\ \A n \in 1..(Len(doc.m) - 1) : StrLess(doc.m[n].k, doc.m[n + 1].k)
    /\ \A n \in 1..Len(doc.m) :
          LET v == Attr(obj, doc.m[n].k)
              d == doc.m[n].v
          IN  CASE v.t = "obj"  -> EncodesEntity(v, d)
                [] v.t = "list" ->
                      /\ d.j = "arr"
                      /\ Len(d.a) = Len(v.l)
                      /\ \A i \in 1..Len(v.l) : EncodesEntity(v.l[i], d.a[i])
                [] OTHER        -> PlainDocument(v, d)

\* C9: to_json emits, for the entity and every nested entity, exactly the
\* fields whose name does not begin with "_" and whose value is not None, with
\* the keys in sorted order.
C9_ToJsonFields ==
    op = "to_json" => EncodesEntity(arg.data, ret)

\* An instance with a None field, a "_" field and a nested instance that has a
\* None field of its own was encoded, and its attributes were not set in key
\* order.
C9_Witness ==
    /\ op = "to_json"
    /\ arg.data.cls = "Department"
    /\ HasKey(arg.data.d, "_cache")
    /\ Attr(arg.data, "Id") = PyNone
    /\ HasKey(arg.data.d, "ParentRef")
    /\ Attr(Attr(arg.data, "ParentRef"), "name") = PyNone
    /\ Len(ret.m) >= 3
    /\ \E n \in 1..(Len(arg.data.d) - 1) : StrLess(arg.data.d[n + 1].k, arg.data.d[n].k)

RECURSIVE SameFields(_, _)
\* a and b are equal field by field: instances of one class with the same
\* attribute names and, under each, values equal field by field.
SameFields(a, b) ==
    /\ a.t = b.t
    /\ IF a.t = "obj"
       THEN /\ a.cls = b.cls
            /\ Keys(a.d) = Keys(b.d)
            /\ \A k \in Keys(a.d) : SameFields(Get(a.d, k), Get(b.d, k))
       ELSE a = b

RECURSIVE PrimitiveOrNested(_)
\* Every public field of e holds None, an int, a str or a bool, or an instance
\* of which the same is true; e has no other attribute.
PrimitiveOrNested(e) ==
    \A n \in 1..Len(e.d) :
        /\ ~StartsWith(e.d[n].k, "_")
        /\ \/ e.d[n].v.t \in {"none", "int", "str", "bool"}
           \/ e.d[n].v.t = "obj" /\ PrimitiveOrNested(e.d[n].v)

RECURSIVE RoundTrips(_)
\* Every field of e is public and holds an int, a str or a bool, or None where
\* the constructor of e's class leaves that field None, or, under a key of the
\* class's class_dict, an instance of the class named there of which the same
\* is true.
RoundTrips(e) ==
    \A n \in 1..Len(e.d) :
        LET k == e.d[n].k
            v == e.d[n].v
        IN  /\ ~StartsWith(k, "_")
            /\ \/ v.t \in {"int", "str", "bool"}
               \/ /\ v.t = "none"
                  /\ HasKey(New(e.cls).d, k)
                  /\ Attr(New(e.cls), k) = PyNone
               \/ /\ v.t = "obj"
                  /\ HasKey(ClassDict(e.cls), k)
                  /\ v.cls = Get(ClassDict(e.cls), k)
                  /\ RoundTrips(v)

----------------------------------------------------------------------------
(* ObjectListMixin.  Every method goes to self._object_list, which Python   *)
(* looks up on the instance and, where the instance has no attribute of     *)
(* that name, on the class: ObjectListMixin._object_list, one list made     *)
(* when the class body ran.  A list is an object on a heap; the state is    *)
(*   [class_object_list |-> the class's list,                               *)
(*    heap |-> the lists callers made, inst |-> for each instance the heap  *)
(*    index of its own _object_list or 0 where it has none,                 *)
(*    plain |-> a plain list given the operations instance 1 is given]      *)

\* The longest list of the run.
MaxList == 2

\* The instances of the run.
Instances == {1, 2}

\* The elements lists hold.
Elements == {PyInt(1), PyInt(2)}

\* key of __getitem__: start:stop, each an int or None.
Slice(start, stop) == [t |-> "slice", start |-> start, stop |-> stop]

\* list indexing: a negative index counts from the end; 0-based.
Norm(l, i) == IF i < 0 THEN i + Len(l) ELSE i

InRange(l, i) == Norm(l, i) >= 0 /\ Norm(l, i) < Len(l)

\* A slice bound, clamped to the list.
Clamp(l, b, default) ==
    IF b = PyNone THEN default
    ELSE IF Norm(l, b.i) < 0 THEN 0
    ELSE IF Norm(l, b.i) > Len(l) THEN Len(l)
    ELSE Norm(l, b.i)

\* l without its element at 1-based position n.
Without(l, n) == SubSeq(l, 1, n - 1) \o SubSeq(l, n + 1, Len(l))

\* list.__len__, __iter__, __contains__, __reversed__ and __getitem__
list_len(l) == PyInt(Len(l))

list_iter(l) == PyList(l)

list_contains(l, item) == PyBool(\E n \in 1..Len(l) : l[n] = item)

list_reversed(l) == PyList([n \in 1..Len(l) |-> l[Len(l) + 1 - n]])

list_getitem(l, key) ==
    IF key.t = "slice"
    THEN LET a == Clamp(l, key.start, 0)
             b == Clamp(l, key.stop, Len(l))
         IN  PyList(IF a >= b THEN <<>> ELSE SubSeq(l, a + 1, b))
    ELSE IF InRange(l, key.i) THEN l[Norm(l, key.i) + 1]
    ELSE Raised("IndexError")

\* list.append, pop, __setitem__ and __delitem__: the list afterwards and what
\* the call returned or raised.
list_append(l, value) == [l |-> Append(l, value), ret |-> PyNone]

list_pop(l, args) ==
    LET i == IF Len(args) = 0 THEN 0 - 1 ELSE args[1].i
    IN  IF InRange(l, i) THEN [l |-> Without(l, Norm(l, i) + 1), ret |-> l[Norm(l, i) + 1]]
        ELSE [l |-> l, ret |-> Raised("IndexError")]

list_setitem(l, key, value) ==
    IF InRange(l, key.i) THEN [l |-> [l EXCEPT ![Norm(l, key.i) + 1] = value], ret |-> PyNone]
    ELSE [l |-> l, ret |-> Raised("IndexError")]

list_delitem(l, key) ==
    IF InRange(l, key.i) THEN [l |-> Without(l, Norm(l, key.i) + 1), ret |-> PyNone]
    ELSE [l |-> l, ret |-> Raised("IndexError")]

\* self._object_list: the instance's own attribute, else the class's.
object_list(st, self) ==
    IF st.inst[self] = 0 THEN st.class_object_list ELSE st.heap[st.inst[self]]

\* The state once the list self._object_list names has become l.
Mutated(st, self, l) ==
    IF st.inst[self] = 0 THEN [st EXCEPT !.class_object_list = l]
    ELSE [st EXCEPT !.heap[st.inst[self]] = l]

\* The outcome of a mutating method of self, r being what the list method did
\* to self._object_list and p what it did to the plain list, which follows
\* instance 1.
ListOutcome(st, self, r, p) ==
    Outcome([Mutated(st, self, r.l) EXCEPT !.plain = IF self = 1 THEN p.l ELSE @], r.ret, <<>>)

\* ObjectListMixin.__len__, __iter__, __contains__, __getitem__, __reversed__
len(st, self) == list_len(object_list(st, self))

iter(st, self) == list_iter(object_list(st, self))

contains(st, self, item) == list_contains(object_list(st, self), item)

getitem(st, self, key) == list_getitem(object_list(st, self), key)

reversed(st, self) == list_reversed(object_list(st, self))

\* append going to the class's list whatever list the instance has.
append_to_class(st, self, value) ==
    LET r == list_append(st.class_object_list, value)
    IN  Outcome([st EXCEPT !.class_object_list = r.l,
                           !.plain = IF self = 1 THEN list_append(@, value).l ELSE @],
                r.ret, <<>>)

\* ObjectListMixin.append, pop, __setitem__, __delitem__
append(st, self, value) ==
    ListOutcome(st, self, list_append(object_list(st, self), value),
                list_append(st.plain, value))

pop(st, self, args) ==
    ListOutcome(st, self, list_pop(object_list(st, self), args), list_pop(st.plain, args))

setitem(st, self, key, value) ==
    ListOutcome(st, self, list_setitem(object_list(st, self), key, value),
                list_setitem(st.plain, key, value))

delitem(st, self, key) ==
    ListOutcome(st, self, list_delitem(object_list(st, self), key),
                list_delitem(st.plain, key))

\* The lists instances are built over.
StartLists == SeqsUpTo(Elements, 2)

\* Integer keys, in and out of range on both sides.
IntKeys == {PyInt(i) : i \in (0 - (MaxList + 1))..MaxList}

\* Keys of __getitem__: an index or a slice.
ItemKeys == IntKeys \cup {Slice(PyNone, PyNone), Slice(PyInt(1), PyNone),
                          Slice(PyNone, PyInt(0 - 1)), Slice(PyInt(0), PyInt(2))}

\* pop() and pop(i)
PopArgs == {<<>>} \cup {<<k>> : k \in IntKeys}

\* Two instances: each is of a subclass whose constructor assigns the list it
\* is given to self._object_list (TestSubclass(L)), or of one that assigns
\* nothing.  The class's list is empty, as the class body made it; the plain
\* list starts as the list instance 1 shows.
InitList ==
    /\ op = "init"
    /\ arg = <<>>
    /\ pre = NoInstance
    /\ ret = PyNone
    /\ calls = <<>>
    /\ \E r1 \in {0, 1}, r2 \in {0, 2}, L1 \in StartLists, L2 \in StartLists :
          LET heap == <<IF r1 = 0 THEN <<>> ELSE L1, IF r2 = 0 THEN <<>> ELSE L2>>
          IN  ent = [class_object_list |-> <<>>, heap |-> heap, inst |-> <<r1, r2>>,
                     plain |-> heap[1]]

ListAppend ==
    /\ ent # NoInstance
    /\ \E self \in Instances, value \in Elements :
          /\ Len(object_list(ent, self)) < MaxList
          /\ Len(ent.plain) < MaxList
          /\ Done("append", [self |-> self, value |-> value], append(ent, self, value))

ListPop ==
    /\ ent # NoInstance
    /\ \E self \in Instances, args \in PopArgs :
          Done("pop", [self |-> self, args |-> args], pop(ent, self, args))

ListSetItem ==
    /\ ent # NoInstance
    /\ \E self \in Instances, key \in IntKeys, value \in Elements :
          Done("setitem", [self |-> self, key |-> key, value |-> value],
               setitem(ent, self, key, value))

ListDelItem ==
    /\ ent # NoInstance
    /\ \E self \in Instances, key \in IntKeys :
          Done("delitem", [self |-> self, key |-> key], delitem(ent, self, key))

NextList == ListAppend \/ ListPop \/ ListSetItem \/ ListDelItem

SpecList == InitList /\ [][NextList]_vars

----------------------------------------------------------------------------
(* Properties of ObjectListMixin, under SpecList *)

\* The last operation changed a list, or tried to.
Mutators == {"append", "pop", "setitem", "delitem"}

\* C13: after any sequence of append, pop, item assignment and item deletion
\* on an instance built over a list L, its length, iteration order,
\* containment, indexing and slicing, and reversed order are those of a plain
\* list that started as L and was given the same operations.
C13_ListEquivalence ==
    (op \in Mutators \cup {"init"} /\ ent.inst[1] # 0) =>
        /\ len(ent, 1) = list_len(ent.plain)
        /\ iter(ent, 1) = list_iter(ent.plain)
        /\ \A item \in Elements : contains(ent, 1, item) = list_contains(ent.plain, item)
        /\ \A key \in ItemKeys : getitem(ent, 1, key) = list_getitem(ent.plain, key)
        /\ reversed(ent, 1) = list_reversed(ent.plain)
        /\ op \in Mutators /\ arg.self = 1 =>
              ret = (CASE op = "append"  -> list_append(pre.plain, arg.value).ret
                       [] op = "pop"     -> list_pop(pre.plain, arg.args).ret
                       [] op = "setitem" -> list_setitem(pre.plain, arg.key, arg.value).ret
                       [] OTHER          -> list_delitem(pre.plain, arg.key).ret)

\* An instance that showed [2, 1] had pop(0) called on it: 2 came back and it
\* shows [1]; the other instance has no list of its own.
C13_Witness ==
    /\ op = "pop"
    /\ arg.self = 1
    /\ arg.args = <<PyInt(0)>>
    /\ ent.inst = <<1, 0>>
    /\ object_list(pre, 1) = <<PyInt(2), PyInt(1)>>
    /\ pre.class_object_list # <<>>
    /\ ret = PyInt(2)
    /\ iter(ent, 1) = PyList(<<PyInt(1)>>)
    /\ getitem(ent, 1, PyInt(0 - 1)) = PyInt(1)

\* C18: two distinct instances never share elements through the mixin: after
\* an append, pop, item assignment or item deletion on one instance the length
\* and contents of every other instance are as before, also for instances that
\* never assigned their own list.
C18_NoSharing ==
    op \in Mutators =>
        \A other \in Instances \ {arg.self} :
            /\ len(ent, other) = len(pre, other)
            /\ iter(ent, other) = iter(pre, other)

====
